---- MODULE Spec2Model ----
(***************************************************************************)
(* parseForm of zod-friendly-forms: the input adapter, the optional        *)
(* empty-string stripping, the call of the schema's safeParse, the         *)
(* flattening of the issue list into the errors map and the assembly of    *)
(* the result.  Modelled are the current src/index.ts and the two          *)
(* historical parseForm versions of src/unnamed/part_003 that accept the   *)
(* flatResult option (nested errors by default).                           *)
(***************************************************************************)
EXTENDS Integers, Sequences, FiniteSets, TLC

VARIABLES
    data,      \* the caller's data argument (the object itself: parseForm may write to it)
    schema,    \* the caller's schema handle (external; read-only)
    options,   \* the options argument of the last call
    received,  \* the mapping the last call handed to schema.safeParse
    result,    \* the value the last call returned
    callee,    \* which parseForm ran last
    calls      \* number of calls made so far

vars == <<data, schema, options, received, result, callee, calls>>

----------------------------------------------------------------------------
(* Bounds of the model *)

\* top-level issues plus union sub-issues in one issue list
MaxNodes == 3
\* alternatives (unionErrors) of one invalid_union issue
MaxBranches == 2
\* entries of a FormData / URLSearchParams container
MaxEntries == 2
\* parseForm calls in one behaviour
MaxCalls == 2
\* issues of one list in the runs on keys and on unions within unions
MaxIssues == 2

----------------------------------------------------------------------------
(* JavaScript values.  Every value carries its type as its field name, so   *)
(* undefined, a string, a boolean and an object are never confused.         *)

Undefined == [undef |-> TRUE]
JStr(s) == [str |-> s]
JBool(b) == [bool |-> b]
JObj(m) == [obj |-> m]
JNull == [null |-> TRUE]
JArr(items) == [items |-> items]

\* a mapping (a plain object used as a dictionary) is kept as the function from its own
\* keys to their values
IsMapping(v) == ~("null" \in DOMAIN v \/ "str" \in DOMAIN v \/ "items" \in DOMAIN v)

\* a faulty variant: the exception is caught and an empty errors map returned
ThrownAsEmptyErrors(e) == [errors |-> <<>>]

\* an exception: what a call that does not return leaves with its caller
TypeError == [name |-> "TypeError"]
Thrown(e) == [thrown |-> e]

\* a faulty variant: only false switches an option off
TruthyUnlessFalse(v) == ~("bool" \in DOMAIN v /\ ~v.bool)

\* JavaScript truthiness of an option value (undefined, false: falsy)
Truthy(v) == "bool" \in DOMAIN v /\ v.bool

\* {...a, ...b}: the own keys of a, then those of b, b winning
Spread(a, b) ==
    [k \in (DOMAIN a) \cup (DOMAIN b) |-> IF k \in DOMAIN b THEN b[k] ELSE a[k]]

\* result[key] = value
Put(m, key, value) ==
    [k \in (DOMAIN m) \cup {key} |-> IF k = key THEN value ELSE m[k]]

\* options?.name
OptionGet(opts, name) ==
    IF opts = Undefined THEN Undefined
    ELSE IF name \in DOMAIN opts THEN opts[name]
    ELSE Undefined

----------------------------------------------------------------------------
(* Issue paths and keys *)

\* a path segment: a property name or an array index
Name(s) == [name |-> s]
Index(i) == [index |-> i]

\* String(segment), as Array.prototype.join and a computed property key apply it
Str(seg) == IF "index" \in DOMAIN seg THEN ToString(seg.index) ELSE seg.name

\* a faulty variant: the key is the first segment alone
joinFirst(path) == IF path = <<>> THEN "" ELSE Str(path[1])

\* path.join(".")
RECURSIVE join(_)
join(path) ==
    IF path = <<>> THEN ""
    ELSE IF Len(path) = 1 THEN Str(path[1])
    ELSE Str(path[1]) \o "." \o join(Tail(path))

\* an entry of an errors map: a message, or (nested mode) a nested mapping
Leaf(message) == [msg |-> message]
Node(mapping) == [map |-> mapping]

----------------------------------------------------------------------------
(* The schema engine (zod), seen through safeParse.  A schema handle is a   *)
(* rule deciding which mappings it accepts, the issue list it reports when  *)
(* it rejects, and what its successful value is.                            *)

\* the fields the modelled form schemas know
Keys == {"password", "nickname"}

\* z.object({password: z.string().min(1)}) and its .optional() variant, a schema
\* that accepts everything and one that accepts nothing
Rules == {"any", "never", "required", "optional"}

\* the successful value: the parsed object, or undefined (a transform to undefined)
Outs == {"object", "undefined"}

Present(m, key) == key \in DOMAIN m /\ m[key] # Undefined

\* an object schema rejects what is no object (null, a string, an array)
Accepts(rule, m) ==
    CASE rule = "any" -> TRUE
      [] rule = "never" -> FALSE
      [] rule = "required" ->
            IsMapping(m) /\ Present(m, "password") /\ m["password"] # JStr("")
      [] rule = "optional" ->
            IsMapping(m) /\ (~Present(m, "password") \/ m["password"] # JStr(""))

\* schema.safeParse(unknownData): {success: true, data} or {success: false, error},
\* error.errors being the issue list.  A handle that is no schema (no safeParse
\* function on it) makes the call raise a TypeError.
safeParse(sch, unknownData) ==
    IF sch.rule = "malformed" THEN [raised |-> TypeError]
    ELSE IF Accepts(sch.rule, unknownData)
    THEN [success |-> TRUE,
          data |-> IF sch.out = "undefined" THEN Undefined
                   ELSE IF IsMapping(unknownData) THEN JObj(unknownData)
                   ELSE unknownData]
    ELSE [success |-> FALSE, error |-> [errors |-> sch.issues]]

----------------------------------------------------------------------------
(* src/unnamed/part_003: the errors map of the parseForm versions with the  *)
(* flatResult option                                                        *)

\* the reduceRight callback: (innerPrev, innerNext, idx) => ...; idx counts from 1 here
nestCallback(innerPrev, innerNext, idx, next) ==
    IF idx = Len(next.path)
    THEN Str(innerNext) :> Leaf(next.message)
    ELSE Str(innerNext) :> Node(innerPrev)

\* next.path.reduceRight(callback, innerPrev), from segment idx down to the first
RECURSIVE reduceRightFrom(_, _, _)
reduceRightFrom(innerPrev, idx, next) ==
    IF idx = 0 THEN innerPrev
    ELSE reduceRightFrom(nestCallback(innerPrev, next.path[idx], idx, next), idx - 1, next)

\* a faulty variant: the per-issue mapping is merged into the entry already at its key
\* (one level of deep merge) instead of replacing it
nestedMergeDeep(prev, inner) ==
    [k \in (DOMAIN prev) \cup (DOMAIN inner) |->
        IF k \notin DOMAIN inner THEN prev[k]
        ELSE IF k \in DOMAIN prev /\ "map" \in DOMAIN prev[k] /\ "map" \in DOMAIN inner[k]
             THEN Node(Spread(prev[k].map, inner[k].map))
             ELSE inner[k]]

\* result = { ...result, ...inner }
nestedMerge(prev, inner) == Spread(prev, inner)

\* a faulty variant: the branches of the flatResult test are swapped
flatResultReducerSwapped(prev, next, flatResult) ==
    IF ~Truthy(flatResult)
    THEN Put(prev, join(next.path), Leaf(next.message))
    ELSE nestedMerge(prev, reduceRightFrom(<<>>, Len(next.path), next))

\* a faulty variant: the nesting is built from the first segment inwards, so the message
\* ends under the first segment and the last segment is outermost
flatResultReducerReversed(prev, next, flatResult) ==
    IF Truthy(flatResult)
    THEN Put(prev, join(next.path), Leaf(next.message))
    ELSE LET n == Len(next.path)
             rev == [path |-> [i \in 1..n |-> next.path[n + 1 - i]],
                     message |-> next.message]
         IN  nestedMerge(prev, reduceRightFrom(<<>>, n, rev))

\* the reducer of both versions: if (flatResult) {...} else {...}
flatResultReducer(prev, next, flatResult) ==
    IF Truthy(flatResult)
    THEN Put(prev, join(next.path), Leaf(next.message))
    ELSE nestedMerge(prev, reduceRightFrom(<<>>, Len(next.path), next))

RECURSIVE reduceIssuesFlatResult(_, _, _)
reduceIssuesFlatResult(prev, issues, flatResult) ==
    IF issues = <<>> THEN prev
    ELSE reduceIssuesFlatResult(flatResultReducer(prev, Head(issues), flatResult),
                                Tail(issues), flatResult)

\* a faulty variant: the default of flatResult is true
flattenErrorsFlatResultDefaultTrue(parseResults, flatResult) ==
    LET flat == IF flatResult = Undefined THEN JBool(TRUE) ELSE flatResult
    IN  reduceIssuesFlatResult(<<>>, parseResults.error.errors, flat)

\* function flattenErrors(result, flatResult = false): an undefined argument takes the default
flattenErrorsFlatResult(parseResults, flatResult) ==
    LET flat == IF flatResult = Undefined THEN JBool(FALSE) ELSE flatResult
    IN  reduceIssuesFlatResult(<<>>, parseResults.error.errors, flat)

----------------------------------------------------------------------------
(* src/index.ts *)

\* for (const [key, value] of data) result[key] = value
RECURSIVE extractFormDataFrom(_, _)
extractFormDataFrom(resultSoFar, entries) ==
    IF entries = <<>> THEN resultSoFar
    ELSE extractFormDataFrom(Put(resultSoFar, Head(entries)[1], Head(entries)[2]),
                             Tail(entries))

\* a faulty variant: the first entry of a key wins
RECURSIVE extractFormDataKeepFirst(_)
extractFormDataKeepFirst(container) ==
    IF container.entries = <<>> THEN <<>>
    ELSE LET first == Head(container.entries)
         IN  Put(extractFormDataKeepFirst([container EXCEPT !.entries = Tail(@)]),
                 first[1], first[2])

\* a faulty variant: the entries holding the empty string are left out
extractFormDataSkipEmpty(container) ==
    extractFormDataFrom(<<>>, SelectSeq(container.entries, LAMBDA e : e[2] # JStr("")))

extractFormData(container) == extractFormDataFrom(<<>>, container.entries)

\* a faulty variant: the keys already holding undefined are deleted
stripEmptyStringsDropUndefined(unknownData) ==
    [key \in { k \in DOMAIN unknownData : unknownData[k] # Undefined } |->
        IF unknownData[key] = JStr("") THEN Undefined ELSE unknownData[key]]

\* a faulty variant: the keys holding the empty string are deleted
stripEmptyStringsDelete(unknownData) ==
    [key \in { k \in DOMAIN unknownData : unknownData[k] # JStr("") } |-> unknownData[key]]

\* Object.keys(unknownData).forEach(key => { if (unknownData[key] === "") unknownData[key] = undefined })
\* The keys of a string are its indices, each holding one character; those of an array
\* are its indices.
stripEmptyStrings(unknownData) ==
    IF "str" \in DOMAIN unknownData THEN unknownData
    ELSE IF "items" \in DOMAIN unknownData
    THEN JArr([i \in DOMAIN unknownData.items |->
                 IF unknownData.items[i] = JStr("") THEN Undefined
                 ELSE unknownData.items[i]])
    ELSE [key \in DOMAIN unknownData |->
             IF unknownData[key] = JStr("") THEN Undefined ELSE unknownData[key]]

\* unionError.errors.forEach(error => { result[error.path.join(".")] = error.message })
\* a faulty variant: a sub-issue that is a union issue has its alternatives visited too
RECURSIVE forEachErrorDeep(_, _), forEachUnionErrorDeep(_, _)
forEachErrorDeep(resultSoFar, errors) ==
    IF errors = <<>> THEN resultSoFar
    ELSE LET error == Head(errors)
             own == Put(resultSoFar, join(error.path), Leaf(error.message))
         IN  forEachErrorDeep(IF error.code = "invalid_union"
                              THEN forEachUnionErrorDeep(own, error.unionErrors)
                              ELSE own,
                              Tail(errors))

forEachUnionErrorDeep(resultSoFar, unionErrors) ==
    IF unionErrors = <<>> THEN resultSoFar
    ELSE forEachUnionErrorDeep(forEachErrorDeep(resultSoFar, Head(unionErrors).errors),
                               Tail(unionErrors))

RECURSIVE forEachError(_, _)
forEachError(resultSoFar, errors) ==
    IF errors = <<>> THEN resultSoFar
    ELSE forEachError(Put(resultSoFar, join(Head(errors).path), Leaf(Head(errors).message)),
                      Tail(errors))

\* next.unionErrors.forEach(unionError => ...)
RECURSIVE forEachUnionError(_, _)
forEachUnionError(resultSoFar, unionErrors) ==
    IF unionErrors = <<>> THEN resultSoFar
    ELSE forEachUnionError(forEachError(resultSoFar, Head(unionErrors).errors),
                           Tail(unionErrors))

\* a faulty variant: the union's alternatives are not visited (the reducer of part_005)
flattenReducerNoUnion(prev, next) ==
    Put(prev, join(next.path), Leaf(next.message))

\* a faulty variant: a key already present is kept (first writer wins)
flattenReducerKeepFirst(prev, next) ==
    LET key == join(next.path)
        own == IF key \in DOMAIN prev THEN prev ELSE Put(prev, key, Leaf(next.message))
    IN  IF next.code = "invalid_union"
        THEN forEachUnionError(own, next.unionErrors)
        ELSE own

\* a faulty variant: the union's own key is written after its sub-issues
flattenReducerUnionLast(prev, next) ==
    IF next.code = "invalid_union"
    THEN Put(forEachUnionError(prev, next.unionErrors), join(next.path), Leaf(next.message))
    ELSE Put(prev, join(next.path), Leaf(next.message))

\* a faulty variant: a union issue contributes its sub-issues alone, not its own key
flattenReducerSubIssuesOnly(prev, next) ==
    IF next.code = "invalid_union"
    THEN forEachUnionError(prev, next.unionErrors)
    ELSE Put(prev, join(next.path), Leaf(next.message))

\* a faulty variant: the nested shape of the versions with flatResult, taken as the default
flattenReducerNested(prev, next) ==
    nestedMerge(prev, reduceRightFrom(<<>>, Len(next.path), next))

\* the reducer of flattenErrors: one top-level issue folded into the map
flattenReducer(prev, next) ==
    LET key == join(next.path)
        own == Put(prev, key, Leaf(next.message))
    IN  IF next.code = "invalid_union"
        THEN forEachUnionError(own, next.unionErrors)
        ELSE own

\* issues.reduce(flattenReducer, prev)
RECURSIVE reduceIssues(_, _)
reduceIssues(prev, issues) ==
    IF issues = <<>> THEN prev
    ELSE reduceIssues(flattenReducer(prev, Head(issues)), Tail(issues))

flattenErrors(parseResults) == reduceIssues(<<>>, parseResults.error.errors)

\* a faulty variant: a success also carries an (empty) errors map
assembleResultEmptyErrors(parseResults) ==
    IF parseResults.success
    THEN [validData |-> parseResults.data, errors |-> <<>>]
    ELSE [errors |-> flattenErrors(parseResults), zodError |-> parseResults.error]

\* a faulty variant: validData is a copy without the keys holding undefined
assembleResultFiltered(parseResults) ==
    IF parseResults.success
    THEN [validData |->
            IF "obj" \in DOMAIN parseResults.data
            THEN JObj([k \in { j \in DOMAIN parseResults.data.obj :
                                 parseResults.data.obj[j] # Undefined } |->
                          parseResults.data.obj[k]])
            ELSE parseResults.data]
    ELSE [errors |-> flattenErrors(parseResults), zodError |-> parseResults.error]

\* a faulty variant: a failure carries the errors map alone
assembleResultNoZodError(parseResults) ==
    IF parseResults.success
    THEN [validData |-> parseResults.data]
    ELSE [errors |-> flattenErrors(parseResults)]

\* a faulty variant: a failure is thrown, as schema.parse does
assembleResultThrowing(parseResults) ==
    IF parseResults.success
    THEN [validData |-> parseResults.data]
    ELSE Thrown(parseResults.error)

\* if (parseResults.success) return { validData }; return { errors, zodError }
assembleResult(parseResults) ==
    IF parseResults.success
    THEN [validData |-> parseResults.data]
    ELSE [errors |-> flattenErrors(parseResults), zodError |-> parseResults.error]

IsContainer(d) == d.kind \in {"FormData", "URLSearchParams"}

\* The body of parseForm(params, options) of src/index.ts: what it leaves in the
\* caller's data object, what it hands to schema.safeParse (undefined when it does not
\* get there) and what it returns or throws.  The function has no try/catch, so an
\* exception raised inside it ends the call and reaches the caller.
parseForm(d, sch, opts) ==
    LET extracted == IF IsContainer(d) THEN extractFormData(d) ELSE d.obj
        strip == Truthy(OptionGet(opts, "stripEmptyStrings"))
    IN  IF strip /\ "null" \in DOMAIN extracted
        THEN \* Object.keys(null) raises
             [data |-> d, received |-> Undefined, returned |-> Thrown(TypeError)]
        ELSE LET unknownData == IF strip THEN stripEmptyStrings(extracted) ELSE extracted
                 parseResults == safeParse(sch, unknownData)
             IN  \* what is no container is used as it is: the stripping writes to the
                 \* caller's object
                 [data |-> IF IsContainer(d) THEN d ELSE [d EXCEPT !.obj = unknownData],
                  received |-> unknownData,
                  returned |-> IF "raised" \in DOMAIN parseResults
                               THEN Thrown(parseResults.raised)
                               ELSE assembleResult(parseResults)]

\* one whole call of parseForm of src/index.ts
ParseForm(opts) ==
    /\ calls < MaxCalls
    /\ LET call == parseForm(data, schema, opts)
       IN  /\ data' = call.data
           /\ received' = call.received
           /\ result' = call.returned
    /\ options' = opts
    /\ callee' = "index.ts"
    /\ calls' = calls + 1
    /\ UNCHANGED schema

----------------------------------------------------------------------------
(* src/unnamed/part_003: the two parseForm versions with the flatResult     *)
(* option.  They keep no state and write to nothing they are given, so a    *)
(* behaviour makes one call of them.                                        *)

\* the earlier version: the fold written inline in parseForm, options = {} by default,
\* the success result under the key data
ParseFormInline(optsArg) ==
    /\ callee = "none"
    /\ LET opts == IF optsArg = Undefined THEN <<>> ELSE optsArg
           plain == IF data.kind = "FormData" THEN extractFormData(data) ELSE data.obj
           parsed == safeParse(schema, plain)
       IN  /\ received' = plain
           /\ result' = IF parsed.success
                        THEN [data |-> parsed.data]
                        ELSE [errors |-> reduceIssuesFlatResult(<<>>, parsed.error.errors,
                                              OptionGet(opts, "flatResult"))]
    /\ options' = optsArg
    /\ callee' = "part_003:12"
    /\ calls' = calls + 1
    /\ UNCHANGED <<data, schema>>

\* the later version: flattenErrors(parseResults, options?.flatResult)
ParseFormFlatResult(optsArg) ==
    /\ callee = "none"
    /\ LET opts == IF optsArg = Undefined THEN <<>> ELSE optsArg
           unknownData == IF data.kind = "FormData" THEN extractFormData(data) ELSE data.obj
           parseResults == safeParse(schema, unknownData)
       IN  /\ received' = unknownData
           /\ result' = IF parseResults.success
                        THEN [validData |-> parseResults.data]
                        ELSE [errors |-> flattenErrorsFlatResult(parseResults,
                                              OptionGet(opts, "flatResult"))]
    /\ options' = optsArg
    /\ callee' = "part_003:120"
    /\ calls' = calls + 1
    /\ UNCHANGED <<data, schema>>

----------------------------------------------------------------------------
(* The inputs the model draws: issue lists, data arguments, options *)

\* paths of top-level issues: the root, a field, a field nested in it, an array index
\* and the property named "0"
TopPaths ==
    { <<>>, <<Name("user")>>, <<Name("user"), Name("email")>>, <<Index(0)>>, <<Name("0")>> }

\* for the nested errors also a second nested field and an element of a nested array
NestedPaths ==
    TopPaths \cup { <<Name("user"), Name("age")>>, <<Name("user"), Name("email"), Index(0)>> }

\* paths of invalid_union issues and of the issues of their alternatives
UnionPaths == { <<>>, <<Name("user")>> }
SubPaths == { <<>>, <<Name("email")>>, <<Name("user"), Name("email")>> }

\* issue kinds the switch of flattenErrors leaves alone, each with its message
PlainKinds == { <<"invalid_type", "Required">>, <<"too_small", "Too small">> }
SubKinds == { <<"invalid_type", "Required">>, <<"invalid_literal", "Invalid literal">> }
UnionMsgs == { "Invalid input", "Required" }
Msgs == { k[2] : k \in PlainKinds \cup SubKinds } \cup UnionMsgs

PlainIssues == { [path |-> p, message |-> k[2], code |-> k[1]] : p \in TopPaths, k \in PlainKinds }
NestedIssues == { [path |-> p, message |-> k[2], code |-> k[1]] : p \in NestedPaths, k \in PlainKinds }
SubIssues == { [path |-> p, message |-> k[2], code |-> k[1]] : p \in SubPaths, k \in SubKinds }

\* unionErrors: at most b alternatives holding k issues in all, each alternative a
\* ZodError with at least one issue; UnionErrorsFirst(k, b, j): those whose first
\* alternative holds at most j
RECURSIVE UnionErrorsOfSize(_, _), UnionErrorsFirst(_, _, _)
UnionErrorsFirst(k, b, j) ==
    { <<[errors |-> es]>> \o rest :
        es \in [1..j -> SubIssues], rest \in UnionErrorsOfSize(k - j, b - 1) }
    \cup (IF j = 1 THEN {} ELSE UnionErrorsFirst(k, b, j - 1))

UnionErrorsOfSize(k, b) ==
    (IF k = 0 THEN {<<>>} ELSE {})
    \cup (IF b = 0 \/ k = 0 THEN {} ELSE UnionErrorsFirst(k, b, k))

UnionIssuesOfSize(k) ==
    { [path |-> p, message |-> m, code |-> "invalid_union", unionErrors |-> ue] :
        p \in UnionPaths, m \in UnionMsgs, ue \in UnionErrorsOfSize(k, MaxBranches) }

\* the issues of n nodes: the issue itself and the issues of its alternatives
IssuesOfSize(n) == (IF n = 1 THEN PlainIssues ELSE {}) \cup UnionIssuesOfSize(n - 1)

\* IssueListsFirst(n, k): the lists of n nodes whose first issue has at most k
RECURSIVE IssueListsOfSize(_), IssueListsFirst(_, _)
IssueListsFirst(n, k) ==
    IF k = 0 THEN {}
    ELSE { <<i>> \o rest : i \in IssuesOfSize(k), rest \in IssueListsOfSize(n - k) }
         \cup IssueListsFirst(n, k - 1)

IssueListsOfSize(n) == IF n = 0 THEN {<<>>} ELSE IssueListsFirst(n, n)

RECURSIVE IssueListsUpTo(_)
IssueListsUpTo(n) ==
    IssueListsOfSize(n) \cup (IF n = 0 THEN {} ELSE IssueListsUpTo(n - 1))

\* issue lists without unions, for the versions that know no union case
RECURSIVE PlainListsOfLen(_), PlainListsUpTo(_)
PlainListsOfLen(n) ==
    IF n = 0 THEN {<<>>}
    ELSE { <<i>> \o rest :
             i \in NestedIssues, rest \in PlainListsOfLen(n - 1) }

PlainListsUpTo(n) == PlainListsOfLen(n) \cup (IF n = 0 THEN {} ELSE PlainListsUpTo(n - 1))

\* one issue or none, for the runs that vary the data argument
SingleIssueLists ==
    {<<>>} \cup { <<[path |-> p, message |-> "Required", code |-> "invalid_type"]>> :
                    p \in { <<Name("password")>>, <<Name("user"), Name("email")>> } }

\* data: a plain mapping, or a FormData / URLSearchParams container (its entries in order)
FieldValues == { JStr(""), JStr("x"), Undefined }
PlainMappings == UNION { [ks -> FieldValues] : ks \in SUBSET Keys }
Entries == { <<k, v>> : k \in Keys, v \in { JStr(""), JStr("x") } }
EntryLists == UNION { [1..n -> Entries] : n \in 0..MaxEntries }
Inputs ==
    { [kind |-> "object", obj |-> m] : m \in PlainMappings }
    \cup { [kind |-> k, entries |-> es] : k \in {"FormData", "URLSearchParams"}, es \in EntryLists }

\* the options argument: omitted, or an object with any of the two keys
OptionsArgs ==
    {Undefined}
    \cup UNION { [ks -> { JBool(TRUE), JBool(FALSE) }] : ks \in SUBSET {"stripEmptyStrings", "flatResult"} }
FlatResultArgs ==
    {Undefined} \cup UNION { [ks -> { JBool(TRUE), JBool(FALSE) }] : ks \in SUBSET {"flatResult"} }

\* paths whose keys can meet: the root and the empty property name, a nested field and
\* the property named with a ".", an array index and the property named by its numeral,
\* a field and a field nested in it
KeyPaths ==
    { <<>>, <<Name("")>>, <<Name("user")>>, <<Name("user"), Name("email")>>,
      <<Name("user.email")>>, <<Index(0)>>, <<Name("0")>> }
KeyIssues == { [path |-> p, message |-> "Required", code |-> "invalid_type"] : p \in KeyPaths }

\* a sub-issue that is itself a union issue, with the issue of its one alternative
InnerUnionIssues ==
    { [path |-> <<Name("email")>>, message |-> "Invalid input", code |-> "invalid_union",
       unionErrors |-> << [errors |-> <<inner>>] >>] :
        inner \in { [path |-> <<Name("age")>>, message |-> "Too small", code |-> "too_small"],
                    [path |-> <<Name("email")>>, message |-> "Invalid literal",
                     code |-> "invalid_literal"] } }

\* union issues with one alternative holding one sub-issue, a plain one or a union
DeepUnionIssues ==
    { [path |-> p, message |-> "Invalid input", code |-> "invalid_union",
       unionErrors |-> << [errors |-> <<sub>>] >>] :
        p \in UnionPaths,
        sub \in InnerUnionIssues
                \cup { [path |-> <<Name("age")>>, message |-> "Required", code |-> "invalid_type"] } }

\* issues for the runs that set nested and flattened errors side by side: fields, nested
\* fields, an element of a nested array, an array index, and the property named with a "."
ModePaths ==
    { <<Name("user")>>, <<Name("user"), Name("email")>>, <<Name("user.email")>>,
      <<Name("nickname"), Name("email"), Index(0)>>, <<Index(0)>>, <<>> }
ModeIssues == { [path |-> p, message |-> k[2], code |-> k[1]] : p \in ModePaths, k \in PlainKinds }

RECURSIVE ModeListsUpTo(_)
ModeListsUpTo(n) ==
    IF n = 0 THEN {<<>>}
    ELSE ModeListsUpTo(n - 1) \cup [1..n -> ModeIssues]

RECURSIVE KeyListsUpTo(_)
KeyListsUpTo(n) ==
    IF n = 0 THEN {<<>>}
    ELSE KeyListsUpTo(n - 1) \cup [1..n -> KeyIssues \cup DeepUnionIssues]

\* what untyped callers can pass as data: null, a string, an array
UntypedInputs ==
    { [kind |-> "null", obj |-> JNull] }
    \cup { [kind |-> "string", obj |-> JStr(s)] : s \in {"", "x"} }
    \cup { [kind |-> "array", obj |-> JArr(items)] :
             items \in { <<>>, <<JStr("")>>, <<JStr("x")>> } }

\* the options of src/index.ts
StripArgs ==
    {Undefined} \cup UNION { [ks -> { JBool(TRUE), JBool(FALSE) }] : ks \in SUBSET {"stripEmptyStrings"} }

NoCall ==
    /\ options = Undefined
    /\ received = <<>>
    /\ result = [pending |-> TRUE]
    /\ callee = "none"
    /\ calls = 0

----------------------------------------------------------------------------
(* Specifications *)

\* parseForm of src/index.ts on every kind of data argument
Init ==
    /\ data \in Inputs
    /\ schema \in [rule : Rules, issues : SingleIssueLists, out : Outs]
    /\ NoCall

Next == \E opts \in OptionsArgs : ParseForm(opts)

Spec == Init /\ [][Next]_vars

\* flattenErrors of src/index.ts on every issue list of the bounds
InitFlatten ==
    /\ data = [kind |-> "object", obj |-> <<>>]
    /\ schema \in [rule : {"never"}, issues : IssueListsUpTo(MaxNodes), out : {"object"}]
    /\ NoCall

NextFlatten == ParseForm(Undefined)

SpecFlatten == InitFlatten /\ [][NextFlatten]_vars

\* the parseForm versions with the flatResult option
InitFlatResult ==
    /\ \/ /\ data = [kind |-> "object", obj |-> <<>>]
          /\ schema \in [rule : {"never"}, issues : PlainListsUpTo(MaxNodes), out : {"object"}]
       \/ /\ data \in { [kind |-> "object", obj |-> <<>>], [kind |-> "FormData", entries |-> <<>>] }
          /\ schema \in [rule : {"any"}, issues : {<<>>}, out : Outs]
    /\ NoCall

NextFlatResult ==
    \/ \E opts \in FlatResultArgs : ParseFormInline(opts)
    \/ \E opts \in FlatResultArgs : ParseFormFlatResult(opts)

SpecFlatResult == InitFlatResult /\ [][NextFlatResult]_vars

\* flattenErrors of src/index.ts on paths whose keys can meet and on unions within unions
InitKeys ==
    /\ data = [kind |-> "object", obj |-> <<>>]
    /\ schema \in [rule : {"never"}, issues : KeyListsUpTo(MaxIssues), out : {"object"}]
    /\ NoCall

NextKeys == ParseForm(Undefined)

SpecKeys == InitKeys /\ [][NextKeys]_vars

\* the parseForm versions with the flatResult option on the issue lists of ModeIssues
InitModes ==
    /\ data = [kind |-> "object", obj |-> <<>>]
    /\ schema \in [rule : {"never"}, issues : ModeListsUpTo(MaxIssues), out : {"object"}]
    /\ NoCall

NextModes ==
    \/ \E opts \in FlatResultArgs : ParseFormInline(opts)
    \/ \E opts \in FlatResultArgs : ParseFormFlatResult(opts)

SpecModes == InitModes /\ [][NextModes]_vars

\* parseForm of src/index.ts called from untyped code: data of any kind, and a handle
\* that may be no schema
InitUntyped ==
    /\ data \in UntypedInputs \cup { [kind |-> "object", obj |-> m] : m \in PlainMappings }
    /\ schema \in [rule : Rules \cup {"malformed"}, issues : SingleIssueLists, out : Outs]
    /\ NoCall

NextUntyped == \E opts \in StripArgs : ParseForm(opts)

SpecUntyped == InitUntyped /\ [][NextUntyped]_vars

----------------------------------------------------------------------------
(* Properties: the result of src/index.ts *)

\* a key of the result holds a value other than undefined
Populated(r, key) == key \in DOMAIN r /\ r[key] # Undefined

\* the last call was parseForm of src/index.ts
CalledIndex == callee = "index.ts"

\* what safeParse returned in the last call
Outcome == safeParse(schema, received)

\* C1 as stated: after every call of parseForm, a success has validData populated and
\* errors undefined, a failure has errors populated and validData undefined; never both
\* populated and never neither, also when the successful value is undefined
C1_ExclusiveAsStated ==
    CalledIndex =>
        /\ Outcome.success =>
              Populated(result, "validData") /\ ~Populated(result, "errors")
        /\ ~Outcome.success =>
              Populated(result, "errors") /\ ~Populated(result, "validData")
        /\ ~(Populated(result, "validData") /\ Populated(result, "errors"))
        /\ Populated(result, "validData") \/ Populated(result, "errors")

\* C1 amended: a success carries the key validData holding the value safeParse returned
\* and no errors, a failure has errors populated and validData undefined; never both
\* populated, and neither populated exactly when the successful value is undefined
C1_Exclusive ==
    CalledIndex =>
        /\ Outcome.success =>
              /\ "validData" \in DOMAIN result
              /\ result["validData"] = Outcome.data
              /\ ~Populated(result, "errors")
        /\ ~Outcome.success =>
              Populated(result, "errors") /\ ~Populated(result, "validData")
        /\ ~(Populated(result, "validData") /\ Populated(result, "errors"))
        /\ (~Populated(result, "validData") /\ ~Populated(result, "errors"))
              <=> (Outcome.success /\ Outcome.data = Undefined)

\* a call succeeded with the value undefined
C1_Witness ==
    /\ CalledIndex
    /\ Outcome.success
    /\ "validData" \in DOMAIN result
    /\ result["validData"] = Undefined

\* the last call of src/index.ts failed
FailedIndex == CalledIndex /\ "errors" \in DOMAIN result

\* C10: in src/index.ts, whatever the options, every value of the errors map is a
\* message string, and an issue at path [user, email] appears under "user.email"
C10_AlwaysFlat ==
    FailedIndex =>
        /\ \A k \in DOMAIN result["errors"] :
              result["errors"][k] \in { Leaf(m) : m \in Msgs }
        /\ \A n \in DOMAIN schema.issues :
              schema.issues[n].path = <<Name("user"), Name("email")>>
                  => "user.email" \in DOMAIN result["errors"]

\* a failing call for an issue at [user, email], made with flatResult: false
C10_Witness ==
    /\ FailedIndex
    /\ options # Undefined
    /\ "flatResult" \in DOMAIN options
    /\ options["flatResult"] = JBool(FALSE)
    /\ schema.issues # <<>>
    /\ schema.issues[1].path = <<Name("user"), Name("email")>>
    /\ result["errors"] = ("user.email" :> Leaf("Required"))

----------------------------------------------------------------------------
(* Properties: flattenErrors of src/index.ts *)

Issues == schema.issues

IsUnion(issue) == issue.code = "invalid_union"

\* the issues of the alternatives of a union issue, in branch order then issue order
RECURSIVE ConcatErrors(_)
ConcatErrors(unionErrors) ==
    IF unionErrors = <<>> THEN <<>>
    ELSE Head(unionErrors).errors \o ConcatErrors(Tail(unionErrors))

SubIssuesOf(issue) == IF IsUnion(issue) THEN ConcatErrors(issue.unionErrors) ELSE <<>>

SubKeysOf(issue) == { join(SubIssuesOf(issue)[j].path) : j \in DOMAIN SubIssuesOf(issue) }

\* the errors map after the first n top-level issues
ErrorsAfter(n) == reduceIssues(<<>>, SubSeq(Issues, 1, n))

\* C2: the key set of the errors map is exactly the dot-joined paths of the top-level
\* issues and of the sub-issues of the union issues; an issue that is no union adds
\* exactly its one key
C2_KeySet ==
    FailedIndex =>
        /\ DOMAIN result["errors"] =
              { join(Issues[n].path) : n \in DOMAIN Issues }
              \cup UNION { SubKeysOf(Issues[n]) : n \in DOMAIN Issues }
        /\ (\E n \in DOMAIN Issues : Issues[n].path = <<>>) => "" \in DOMAIN result["errors"]
        /\ \A n \in DOMAIN Issues :
              ~IsUnion(Issues[n]) =>
                  DOMAIN ErrorsAfter(n) = DOMAIN ErrorsAfter(n - 1) \cup {join(Issues[n].path)}

\* a union issue contributed a key that only a sub-issue has, next to a plain issue
C2_Witness ==
    /\ FailedIndex
    /\ \E n \in DOMAIN Issues :
          /\ IsUnion(Issues[n])
          /\ \E k \in SubKeysOf(Issues[n]) :
                /\ k \notin { join(Issues[i].path) : i \in DOMAIN Issues }
                /\ k \in DOMAIN result["errors"]
    /\ \E n \in DOMAIN Issues : ~IsUnion(Issues[n])

\* the last top-level issue that resolves to key k
LastTop(k) ==
    CHOOSE n \in DOMAIN Issues :
        /\ join(Issues[n].path) = k
        /\ \A i \in DOMAIN Issues : join(Issues[i].path) = k => i <= n

TopKeys == { join(Issues[n].path) : n \in DOMAIN Issues }

\* C3 as stated: when two top-level issues resolve to the same key, the entry is the
\* message of the later one
C3_LaterTopWinsAsStated ==
    FailedIndex =>
        \A i, j \in DOMAIN Issues :
            (i < j /\ join(Issues[i].path) = join(Issues[j].path) /\ j = LastTop(join(Issues[j].path)))
                => result["errors"][join(Issues[j].path)] = Leaf(Issues[j].message)

\* C3 amended: the entry at a key of top-level issues is the message of the last of them,
\* unless a sub-issue of a union issue at or after that one writes the same key; every
\* entry is one message
C3_LaterTopWins ==
    FailedIndex =>
        /\ \A k \in TopKeys :
              (\A n \in DOMAIN Issues : n >= LastTop(k) => k \notin SubKeysOf(Issues[n]))
                  => result["errors"][k] = Leaf(Issues[LastTop(k)].message)
        /\ \A k \in DOMAIN result["errors"] :
              result["errors"][k] \in { Leaf(m) : m \in Msgs }

\* two top-level issues with different messages resolved to one key; the later won
C3_Witness ==
    /\ FailedIndex
    /\ \E i, j \in DOMAIN Issues :
          /\ i < j
          /\ join(Issues[i].path) = join(Issues[j].path)
          /\ Issues[i].message # Issues[j].message
          /\ j = LastTop(join(Issues[j].path))
          /\ result["errors"][join(Issues[j].path)] = Leaf(Issues[j].message)

\* the writes of one union issue in order: its own key, then its sub-issues
WritesOf(issue) == <<issue>> \o SubIssuesOf(issue)

\* the last write of a union issue to key k
LastWrite(issue, k) ==
    CHOOSE w \in DOMAIN WritesOf(issue) :
        /\ join(WritesOf(issue)[w].path) = k
        /\ \A v \in DOMAIN WritesOf(issue) : join(WritesOf(issue)[v].path) = k => v <= w

\* C4: folding a union issue writes its own key first and then the sub-issues in branch
\* order and, within a branch, in issue order: each key it writes holds the message of
\* the last of these writes, and the other keys stay as they were
C4_UnionOrder ==
    FailedIndex =>
        \A n \in DOMAIN Issues :
            IsUnion(Issues[n]) =>
                LET written == { join(WritesOf(Issues[n])[w].path) : w \in DOMAIN WritesOf(Issues[n]) }
                IN  /\ DOMAIN ErrorsAfter(n) = DOMAIN ErrorsAfter(n - 1) \cup written
                    /\ \A k \in written :
                          ErrorsAfter(n)[k] =
                              Leaf(WritesOf(Issues[n])[LastWrite(Issues[n], k)].message)
                    /\ \A k \in DOMAIN ErrorsAfter(n - 1) \ written :
                          ErrorsAfter(n)[k] = ErrorsAfter(n - 1)[k]
                    /\ n = Len(Issues) => result["errors"] = ErrorsAfter(n)

\* a union, last in the list, whose two alternatives each report one issue at the same
\* path with different messages: the entry is that of the later alternative
C4_Witness ==
    /\ FailedIndex
    /\ Issues # <<>>
    /\ LET u == Issues[Len(Issues)]
       IN  /\ IsUnion(u)
           /\ Len(u.unionErrors) = 2
           /\ Len(u.unionErrors[1].errors) = 1
           /\ Len(u.unionErrors[2].errors) = 1
           /\ u.unionErrors[1].errors[1].path = u.unionErrors[2].errors[1].path
           /\ u.unionErrors[1].errors[1].message # u.unionErrors[2].errors[1].message
           /\ result["errors"][join(u.unionErrors[2].errors[1].path)]
                  = Leaf(u.unionErrors[2].errors[1].message)

\* C5 as stated: the key of a sub-issue of a union issue with a non-empty path is the
\* union's path followed by the sub-issue's path, dot-joined
C5_SubKeyPrefixed ==
    FailedIndex =>
        \A n \in DOMAIN Issues :
            (IsUnion(Issues[n]) /\ Issues[n].path # <<>>) =>
                \A j \in DOMAIN SubIssuesOf(Issues[n]) :
                    join(Issues[n].path \o SubIssuesOf(Issues[n])[j].path)
                        \in DOMAIN ErrorsAfter(n)

----------------------------------------------------------------------------
(* Properties: the parseForm versions with the flatResult option *)

\* the last call was one of the two versions with flatResult, and it failed
FailedFlatResult == callee \in {"part_003:12", "part_003:120"} /\ "errors" \in DOMAIN result

\* the caller asked for dot-joined keys: an options object with flatResult: true
AskedFlat ==
    /\ options # Undefined
    /\ "flatResult" \in DOMAIN options
    /\ options["flatResult"] = JBool(TRUE)

NestedCall == FailedFlatResult /\ ~AskedFlat

\* {s1: {s2: ... {sn: message}}} for a path of n >= 1 segments
RECURSIVE NestedOf(_, _)
NestedOf(path, message) ==
    IF Len(path) = 1 THEN Str(path[1]) :> Leaf(message)
    ELSE Str(path[1]) :> Node(NestedOf(Tail(path), message))

\* the root key of an issue with a non-empty path: its first segment as a property key
RootKey(issue) == Str(issue.path[1])

Rooted == { n \in DOMAIN Issues : Issues[n].path # <<>> }

\* the last issue under root key k
LastRooted(k) ==
    CHOOSE n \in Rooted :
        /\ RootKey(Issues[n]) = k
        /\ \A i \in Rooted : RootKey(Issues[i]) = k => i <= n

\* the errors map after the first n issues, in nested mode
NestedAfter(n) == reduceIssuesFlatResult(<<>>, SubSeq(Issues, 1, n), JBool(FALSE))

\* C6: in nested mode an issue with path [s1, ..., sn], n >= 1, contributes
\* {s1: {s2: ... {sn: message}}}: right after it is folded, the entry at s1 is that subtree
C6_NestedShape ==
    NestedCall =>
        /\ \A n \in Rooted :
              /\ RootKey(Issues[n]) \in DOMAIN NestedAfter(n)
              /\ NestedAfter(n)[RootKey(Issues[n])]
                    = NestedOf(Issues[n].path, Issues[n].message)[RootKey(Issues[n])]
        /\ result["errors"] = NestedAfter(Len(Issues))

\* a single issue at [user, email, 0] gave {user: {email: {0: message}}}
C6_Witness ==
    /\ NestedCall
    /\ Len(Issues) = 1
    /\ Issues[1].path = <<Name("user"), Name("email"), Index(0)>>
    /\ result["errors"]
          = ("user" :> Node("email" :> Node("0" :> Leaf(Issues[1].message))))

\* C7: in nested mode the merge is shallow: there is one entry per root key, every root
\* key keeps an entry, and the entry is the whole subtree of the last issue under that
\* root key, with nothing of an earlier issue's subtree
C7_ShallowMerge ==
    NestedCall =>
        /\ DOMAIN result["errors"] = { RootKey(Issues[n]) : n \in Rooted }
        /\ \A k \in DOMAIN result["errors"] :
              result["errors"][k]
                  = NestedOf(Issues[LastRooted(k)].path, Issues[LastRooted(k)].message)[k]

\* an issue under the root key 0, then two under the root key user, at [user, age] and
\* at [user, email]: 0 is kept, user holds the later subtree and nothing of age
C7_Witness ==
    /\ NestedCall
    /\ Len(Issues) = 3
    /\ Issues[1].path = <<Index(0)>>
    /\ Issues[2].path = <<Name("user"), Name("age")>>
    /\ Issues[3].path = <<Name("user"), Name("email")>>
    /\ result["errors"]
          = ("0" :> Leaf(Issues[1].message)
             @@ "user" :> Node("email" :> Leaf(Issues[3].message)))

\* C8 as stated: in nested mode an issue with the empty path gives an entry under the
\* key "" holding its message
C8_RootIssueNested ==
    NestedCall =>
        \A n \in DOMAIN Issues :
            Issues[n].path = <<>> => "" \in DOMAIN result["errors"]

\* the errors map of flattened mode, stated by its entries
FlatExpected ==
    [k \in TopKeys |-> Leaf(Issues[LastTop(k)].message)]

\* the errors map of nested mode, stated by its entries
NestedExpected ==
    [k \in { RootKey(Issues[n]) : n \in Rooted } |->
        NestedOf(Issues[LastRooted(k)].path, Issues[LastRooted(k)].message)[k]]

\* C9: with options omitted, with flatResult omitted and with flatResult: false the errors
\* are the nested ones; only flatResult: true gives the dot-joined keys
C9_NestedByDefault ==
    FailedFlatResult =>
        result["errors"] = IF AskedFlat THEN FlatExpected ELSE NestedExpected

\* options omitted, an issue at [user, email]: the nested shape, not the key user.email
C9_Witness ==
    /\ FailedFlatResult
    /\ options = Undefined
    /\ Len(Issues) = 1
    /\ Issues[1].path = <<Name("user"), Name("email")>>
    /\ result["errors"] = ("user" :> Node("email" :> Leaf(Issues[1].message)))
    /\ result["errors"] # FlatExpected

----------------------------------------------------------------------------
(* Properties: what src/index.ts hands to the schema *)

\* the normalized input of a call: the mapping extracted from a container, or the plain
\* mapping itself
Normalized(d) == IF IsContainer(d) THEN extractFormData(d) ELSE d.obj

\* the options enable the stripping: stripEmptyStrings is there and true
StripOn(opts) ==
    /\ opts # Undefined
    /\ "stripEmptyStrings" \in DOMAIN opts
    /\ opts["stripEmptyStrings"] = JBool(TRUE)

\* C11: in every call with stripEmptyStrings enabled, the mapping safeParse receives has
\* the keys of the normalized input, undefined where the input held the empty string
\* and the input's value everywhere else, so that it holds no empty string; for a plain
\* mapping and for a container alike
C11_StripBeforeParse ==
    [][ StripOn(options') =>
            /\ DOMAIN received' = DOMAIN Normalized(data)
            /\ \A k \in DOMAIN Normalized(data) :
                  received'[k] = IF Normalized(data)[k] = JStr("") THEN Undefined
                                 ELSE Normalized(data)[k]
            /\ \A k \in DOMAIN received' : received'[k] # JStr("")
      ]_vars

\* a call with stripEmptyStrings: true on a FormData holding an empty and a non-empty
\* field: the schema received undefined for the first and the value of the second
C11_Witness ==
    /\ CalledIndex
    /\ StripOn(options)
    /\ data = [kind |-> "FormData",
               entries |-> << <<"password", JStr("")>>, <<"nickname", JStr("x")>> >>]
    /\ received = ("password" :> Undefined @@ "nickname" :> JStr("x"))

\* C12: in every call with stripEmptyStrings absent or false, the mapping safeParse
\* receives is the normalized input, empty strings included, and the caller's data is
\* left as it was
C12_PassThrough ==
    [][ ~StripOn(options') => received' = Normalized(data) /\ data' = data ]_vars

\* a call without options on a mapping holding an empty string, which the schema received
C12_Witness ==
    /\ CalledIndex
    /\ options = Undefined
    /\ data = [kind |-> "object", obj |-> ("password" :> JStr(""))]
    /\ received = ("password" :> JStr(""))

\* the positions of the entries of a key in a container
PositionsOf(entries, key) == { i \in DOMAIN entries : entries[i][1] = key }

Greatest(S) == CHOOSE i \in S : \A j \in S : j <= i

\* C13: for a container, extractFormData gives a mapping whose keys are the distinct keys
\* of the entries, each holding one string, the value of the last entry of its key; it
\* leaves the container as it was, and without stripping it is what the schema receives
C13_LastEntryWins ==
    [][ IsContainer(data) =>
            LET entries == data.entries
                extracted == extractFormData(data)
            IN  /\ DOMAIN extracted = { entries[i][1] : i \in DOMAIN entries }
                /\ \A k \in DOMAIN extracted :
                      /\ extracted[k] = entries[Greatest(PositionsOf(entries, k))][2]
                      /\ "str" \in DOMAIN extracted[k]
                /\ data' = data
                /\ ~StripOn(options') => received' = extracted
      ]_vars

\* a call on a URLSearchParams holding a key twice: the schema received the second value
C13_Witness ==
    /\ CalledIndex
    /\ ~StripOn(options)
    /\ data = [kind |-> "URLSearchParams",
               entries |-> << <<"password", JStr("x")>>, <<"password", JStr("")>> >>]
    /\ received = ("password" :> JStr(""))

----------------------------------------------------------------------------
(* Properties: the kinds of the data argument *)

\* the key/value pairs a data argument holds
PairsOf(d) ==
    IF IsContainer(d) THEN { d.entries[i] : i \in DOMAIN d.entries }
    ELSE { <<k, d.obj[k]>> : k \in DOMAIN d.obj }

NoRepeatedKey(d) ==
    IsContainer(d) =>
        \A i, j \in DOMAIN d.entries : d.entries[i][1] = d.entries[j][1] => i = j

\* C14: what a call returns for a data argument without repeated key is what parseForm
\* returns, for the same schema and options, for every plain mapping, FormData and
\* URLSearchParams holding the same key/value pairs without repeated key
C14_SameOutcomeForAllKinds ==
    [][ NoRepeatedKey(data) =>
            LET pairs == PairsOf(data)
            IN  \A d \in Inputs :
                    PairsOf(d) = pairs /\ NoRepeatedKey(d)
                        => parseForm(d, schema, options').returned = result'
      ]_vars

\* a failing call on a URLSearchParams holding two fields, one of them empty: the plain
\* mapping and the FormData of the same pairs give the errors map it returned
C14_Witness ==
    /\ CalledIndex
    /\ data = [kind |-> "URLSearchParams",
               entries |-> << <<"nickname", JStr("x")>>, <<"password", JStr("")>> >>]
    /\ "errors" \in DOMAIN result
    /\ result["errors"] = ("password" :> Leaf("Required"))
    /\ parseForm([kind |-> "object",
                  obj |-> ("password" :> JStr("") @@ "nickname" :> JStr("x"))],
                 schema, options).returned = result
    /\ parseForm([kind |-> "FormData",
                  entries |-> << <<"password", JStr("")>>, <<"nickname", JStr("x")>> >>],
                 schema, options).returned = result

----------------------------------------------------------------------------
(* Properties: the assembly of the result in src/index.ts *)

\* C15: after a call in which safeParse succeeded the result is {validData} alone,
\* validData being the value safeParse returned with every key and value of it; there is
\* nothing of flattenErrors in it (no errors, no zodError)
C15_ValidDataAsReturned ==
    CalledIndex /\ Outcome.success => result = [validData |-> Outcome.data]

\* a successful call whose value holds a key with undefined and one with a string
C15_Witness ==
    /\ CalledIndex
    /\ Outcome.success
    /\ received = ("password" :> JStr("x") @@ "nickname" :> Undefined)
    /\ result = [validData |-> JObj(received)]

\* C16: the result carries zodError exactly when it carries errors, which is exactly when
\* safeParse failed; zodError is then the error safeParse returned and errors is the
\* flattening of the issue list of that error; validData is there exactly on success
C16_ZodErrorWithErrors ==
    CalledIndex =>
        /\ ("zodError" \in DOMAIN result) <=> ("errors" \in DOMAIN result)
        /\ ("errors" \in DOMAIN result) <=> ~Outcome.success
        /\ ("validData" \in DOMAIN result) <=> Outcome.success
        /\ ~Outcome.success =>
              /\ result["zodError"] = Outcome.error
              /\ result["errors"] = flattenErrors([error |-> result["zodError"]])

\* a failed call: the result holds the error with its issue and the errors map of it
C16_Witness ==
    /\ CalledIndex
    /\ ~Outcome.success
    /\ result["zodError"] = [errors |-> schema.issues]
    /\ Len(schema.issues) = 1
    /\ result["errors"] = ("password" :> Leaf("Required"))

\* C17: whatever issue list a failing safeParse reports (plain issues of the kinds, union
\* issues with their alternatives, no issue at all), the call returns a result with an
\* errors map and throws nothing
C17_FailureIsReturned ==
    CalledIndex /\ ~Outcome.success =>
        /\ "thrown" \notin DOMAIN result
        /\ "errors" \in DOMAIN result
        /\ DOMAIN result["errors"] \subseteq { join(p) : p \in TopPaths \cup SubPaths }

\* a failed call whose issue list holds a union issue with an alternative and a plain
\* issue, returned as an errors map
C17_Witness ==
    /\ CalledIndex
    /\ ~Outcome.success
    /\ Len(Issues) = 2
    /\ IsUnion(Issues[1])
    /\ Issues[1].unionErrors # <<>>
    /\ Issues[2].code = "too_small"
    /\ "errors" \in DOMAIN result

\* C20: a call made right after a call with the same options, on the same schema and the
\* same data object as the first call left it, returns what the first call returned
C20_SameResultTwice ==
    [][ CalledIndex /\ options' = options => result' = result ]_vars

\* the second of two calls on a plain mapping whose empty string the stripping of the
\* first call replaced in the caller's object
C20_Witness ==
    /\ calls = 2
    /\ StripOn(options)
    /\ data = [kind |-> "object", obj |-> ("password" :> Undefined @@ "nickname" :> JStr("x"))]
    /\ result = [validData |-> JObj(data.obj)]

----------------------------------------------------------------------------
(* Properties: src/index.ts called from untyped code *)

\* the last call got as far as calling schema.safeParse
SchemaReached == received # Undefined

\* C18: when the handle is no schema and the call of its safeParse raises, the caller
\* gets that exception: the call returns no result, so neither an errors map nor a
\* validData
C18_RaisePropagates ==
    CalledIndex /\ SchemaReached /\ "raised" \in DOMAIN Outcome =>
        /\ result = Thrown(Outcome.raised)
        /\ "errors" \notin DOMAIN result
        /\ "validData" \notin DOMAIN result

\* a call with a handle that is no schema on a valid mapping ended with the TypeError
C18_Witness ==
    /\ CalledIndex
    /\ schema.rule = "malformed"
    /\ data = [kind |-> "object", obj |-> ("password" :> JStr("x"))]
    /\ received = data.obj
    /\ result = [thrown |-> [name |-> "TypeError"]]

\* the failure the specification names for a data argument of no supported kind
InvalidInputKind == [name |-> "InvalidInputKind"]

\* C19 as stated: a call whose data is null, a string or an array fails with
\* InvalidInputKind and does not get to the schema, with or without stripEmptyStrings
C19_InvalidInputKind ==
    CalledIndex /\ data.kind \in {"null", "string", "array"} =>
        /\ result = Thrown(InvalidInputKind)
        /\ ~SchemaReached

----------------------------------------------------------------------------
(* Properties: the caller's data across calls of src/index.ts *)

\* C21 as stated: no call, whatever its options, changes the caller's data argument: a
\* plain mapping keeps its keys and values, a container its entries
C21_DataUnchanged == [][ data' = data ]_vars

\* C22 as stated: what a call returns depends on its schema, data object and options
\* alone: whatever call is made, every call that could follow it on the same data
\* object returns what it would have returned had it been made before
C22_NoSharedState ==
    [][ \A opts \in OptionsArgs :
            parseForm(data', schema, opts).returned = parseForm(data, schema, opts).returned
      ]_vars

----------------------------------------------------------------------------
(* Properties: the own key of a union issue in flattenErrors of src/index.ts *)

\* no top-level issue after the n-th resolves to key k
NoLaterTop(n, k) == \A i \in DOMAIN Issues : i > n => join(Issues[i].path) # k

\* C23 as stated: for a union issue after which no top-level issue has its key, the
\* entry at the union's own key is the union's own message
C23_UnionOwnMessageAsStated ==
    FailedIndex =>
        \A n \in DOMAIN Issues :
            IsUnion(Issues[n]) /\ NoLaterTop(n, join(Issues[n].path))
                => result["errors"][join(Issues[n].path)] = Leaf(Issues[n].message)

\* C23 amended: for a union issue after which no top-level issue has its key, the entry
\* at the union's own key is the union's own message unless a sub-issue of that union or
\* of a later union issue resolves to the same key; when only sub-issues of the union
\* itself do, the entry is the message of the last of them
C23_UnionOwnMessage ==
    FailedIndex =>
        \A n \in DOMAIN Issues :
            LET k == join(Issues[n].path)
            IN  IsUnion(Issues[n]) /\ NoLaterTop(n, k)
                /\ (\A i \in DOMAIN Issues : i > n => k \notin SubKeysOf(Issues[i]))
                    => /\ k \in DOMAIN result["errors"]
                       /\ result["errors"][k] =
                              Leaf(WritesOf(Issues[n])[LastWrite(Issues[n], k)].message)
                       /\ k \notin SubKeysOf(Issues[n])
                              => result["errors"][k] = Leaf(Issues[n].message)

\* a union issue at [user] whose alternatives report other keys only, followed by an
\* issue at another key: the entry at "user" is the union's own message
C23_Witness ==
    /\ FailedIndex
    /\ Len(Issues) = 2
    /\ IsUnion(Issues[1])
    /\ Issues[1].path = <<Name("user")>>
    /\ Issues[1].message = "Invalid input"
    /\ SubKeysOf(Issues[1]) = {"email"}
    /\ Issues[2].path = <<Index(0)>>
    /\ result["errors"]["user"] = Leaf("Invalid input")
    /\ DOMAIN result["errors"] = {"user", "email", "0"}

----------------------------------------------------------------------------
(* Properties: unions within unions and the keys of paths in src/index.ts *)

\* the issues a union sub-issue carries in its own alternatives
InnerIssuesOf(issue) ==
    UNION { { SubIssuesOf(sub)[j] : j \in DOMAIN SubIssuesOf(sub) } :
              sub \in { SubIssuesOf(issue)[i] : i \in DOMAIN SubIssuesOf(issue) } }

\* C24: the keys of errors are those of the top-level issues and of their direct
\* sub-issues and no other: a sub-issue that is itself a union issue contributes its own
\* key, holding its own message when nothing is written to that key after it, and the
\* issues of its alternatives contribute nothing
C24_OneLevel ==
    FailedIndex =>
        /\ DOMAIN result["errors"] =
              TopKeys \cup UNION { SubKeysOf(Issues[n]) : n \in DOMAIN Issues }
        /\ \A n \in DOMAIN Issues :
              \A j \in DOMAIN SubIssuesOf(Issues[n]) :
                  LET sub == SubIssuesOf(Issues[n])[j]
                      k == join(sub.path)
                  IN  IsUnion(sub) /\ LastWrite(Issues[n], k) = j + 1
                      /\ NoLaterTop(n, k)
                      /\ (\A i \in DOMAIN Issues : i > n => k \notin SubKeysOf(Issues[i]))
                          => result["errors"][k] = Leaf(sub.message)

\* a union issue at [user] whose sub-issue at [email] is a union issue with an issue at
\* [age] in its alternative: errors holds "user" and "email" and no "age"
C24_Witness ==
    /\ FailedIndex
    /\ Len(Issues) = 1
    /\ IsUnion(Issues[1])
    /\ Issues[1].path = <<Name("user")>>
    /\ IsUnion(SubIssuesOf(Issues[1])[1])
    /\ \E inner \in InnerIssuesOf(Issues[1]) : inner.path = <<Name("age")>>
    /\ result["errors"] = ("user" :> Leaf("Invalid input") @@ "email" :> Leaf("Invalid input"))

\* the property names of the runs that are empty, hold a "." or are the numeral of an
\* array index
AmbiguousNames == { "", "user.email", "0" }

\* a path of array indices and of property names that are none of these
PlainPath(path) ==
    \A i \in DOMAIN path : "index" \in DOMAIN path[i] \/ path[i].name \notin AmbiguousNames

\* C25 as stated: two issues of a list with different paths never resolve to the same
\* key, whatever property names and array indices the paths are built from
C25_KeyInjectiveAsStated ==
    FailedIndex =>
        \A i, j \in DOMAIN Issues :
            Issues[i].path # Issues[j].path => join(Issues[i].path) # join(Issues[j].path)

\* C25 amended: two issues of a list with different paths, both built from array
\* indices and from non-empty property names that hold no "." and are no numeral, never
\* resolve to the same key, and errors holds an entry for each
C25_KeyInjective ==
    FailedIndex =>
        \A i, j \in DOMAIN Issues :
            (Issues[i].path # Issues[j].path /\ PlainPath(Issues[i].path)
             /\ PlainPath(Issues[j].path))
                => /\ join(Issues[i].path) # join(Issues[j].path)
                   /\ { join(Issues[i].path), join(Issues[j].path) }
                          \subseteq DOMAIN result["errors"]

\* issues at [user] and at [user, email]: two keys, two entries
C25_Witness ==
    /\ FailedIndex
    /\ Len(Issues) = 2
    /\ Issues[1].path = <<Name("user")>>
    /\ Issues[2].path = <<Name("user"), Name("email")>>
    /\ DOMAIN result["errors"] = {"user", "user.email"}

----------------------------------------------------------------------------
(* Properties: nested and flattened errors of src/unnamed/part_003 side by side *)

\* C26 as stated: a call that failed with at least one issue returns an errors map with
\* at least one entry, with flatResult: true and in nested mode alike, also when the
\* only issue has the empty path
C26_ErrorsNotEmpty ==
    FailedFlatResult /\ Issues # <<>> => DOMAIN result["errors"] # {}

\* the leaves of a nested errors map, each with the dot-joined chain of keys down to it
RECURSIVE JoinedLeaves(_)
JoinedLeaves(nested) ==
    UNION { IF "msg" \in DOMAIN nested[k] THEN { <<k, nested[k]>> }
            ELSE { <<k \o "." \o leaf[1], leaf[2]>> : leaf \in JoinedLeaves(nested[k].map) } :
            k \in DOMAIN nested }

\* the entries of a flattened errors map
EntriesOf(flat) == { <<k, flat[k]>> : k \in DOMAIN flat }

\* what the flattened mode of the same version gives for the issue list
FlatOfIssues == reduceIssuesFlatResult(<<>>, Issues, JBool(TRUE))

\* every path is non-empty and no two issues have the same first segment (root key)
DistinctRoots ==
    /\ \A n \in DOMAIN Issues : Issues[n].path # <<>>
    /\ \A i, j \in DOMAIN Issues : i # j => RootKey(Issues[i]) # RootKey(Issues[j])

\* the property names of the runs that hold a "."
DottedNames == { "user.email" }

\* C27 as stated: for an issue list of non-empty paths with distinct first segments, the
\* leaves of the nested errors map with their dot-joined key chains are exactly the
\* entries of the flattened errors map for that list
C27_SameInformationAsStated ==
    NestedCall /\ DistinctRoots =>
        JoinedLeaves(result["errors"]) = EntriesOf(FlatOfIssues)

\* C27 amended: the same, for the lists in which no first segment is a property name
\* holding a "."
C27_SameInformation ==
    NestedCall /\ DistinctRoots
    /\ (\A n \in DOMAIN Issues : RootKey(Issues[n]) \notin DottedNames)
        => JoinedLeaves(result["errors"]) = EntriesOf(FlatOfIssues)

\* a nested call for issues at [user, email] and at [nickname, email, 0]: the nested map,
\* whose two leaves are the two entries of the flattened map
C27_Witness ==
    /\ NestedCall
    /\ Len(Issues) = 2
    /\ Issues[1].path = <<Name("user"), Name("email")>>
    /\ Issues[2].path = <<Name("nickname"), Name("email"), Index(0)>>
    /\ Issues[1].message # Issues[2].message
    /\ result["errors"] =
          ("user" :> Node("email" :> Leaf(Issues[1].message))
           @@ "nickname" :> Node("email" :> Node("0" :> Leaf(Issues[2].message))))
    /\ JoinedLeaves(result["errors"]) =
          { <<"user.email", Leaf(Issues[1].message)>>,
            <<"nickname.email.0", Leaf(Issues[2].message)>> }
    /\ DOMAIN FlatOfIssues = {"user.email", "nickname.email.0"}

====
